---- MODULE Spec2Model ----
(***************************************************************************)
(* Model of deprecated/classic.py: the ClassicAdapter decorator factory,   *)
(* its message builder get_deprecated_msg, the wrapper installed by        *)
(* ClassicAdapter.__call__, and the module-level entry point deprecated(). *)
(*                                                                         *)
(* Strings that the code formats are sequences of one-character strings,   *)
(* so that str.format is modelled by what it does to the template.  The    *)
(* process-wide warning filter list (warnings.filters) is a reference into *)
(* a heap of list objects, because warnings.catch_warnings saves and       *)
(* restores the reference while warnings.simplefilter mutates the list the *)
(* reference currently points to.                                          *)
(***************************************************************************)
EXTENDS Naturals, Sequences, FiniteSets

VARIABLES
    threads,     \* the threads that run calls in this specification
    cfg,         \* per entity: the ClassicAdapter captured by its wrapper
    issued,      \* per entity: wrapped._deprecated_warning_issued
    heap,        \* list objects holding warning filters
    modFilters,  \* warnings.filters: index of the list currently installed
    stale,       \* the call site's registry version differs from the filters version
    registry,    \* __warningregistry__ keys (text, category, lineno)
    modreg,      \* __warningregistry__ keys (text, category)
    pc,          \* per thread: position inside the wrapper
    callee,      \* per thread: the entity being called
    arg,         \* per thread: the argument of the call
    saved,       \* per thread: catch_warnings._filters
    exc,         \* per thread: exception travelling out of the with block
    cur,         \* per thread: what the current (or last) call did
    stats,       \* per entity: counters of calls, dispatches, ...
    ambient0,    \* the filter configuration the process started with
    budget,      \* calls that may still be started
    msgIn,       \* input of get_deprecated_msg under SpecMsg
    msgOut       \* its result

vars == <<threads, cfg, issued, heap, modFilters, stale, registry, modreg,
          pc, callee, arg, saved, exc, cur, stats, ambient0, budget,
          msgIn, msgOut>>

wrapperVars == <<threads, cfg, issued, heap, modFilters, stale, registry, modreg,
                 pc, callee, arg, saved, exc, cur, stats, ambient0, budget>>

msgVars == <<msgIn, msgOut>>

-----------------------------------------------------------------------------
(* Bounds *)

MaxCalls == 3
MaxCallsConc == 3
MaxNameLen == 2
MaxReasonParts == 2
MaxVersionLen == 2

-----------------------------------------------------------------------------
(* Sequences of characters *)

RECURSIVE Flatten(_)
Flatten(ss) == IF ss = <<>> THEN <<>> ELSE Head(ss) \o Flatten(Tail(ss))

SeqsUpTo(S, n) == UNION {[1..k -> S] : k \in 0..n}

NonEmptySeqsUpTo(S, n) == UNION {[1..k -> S] : k \in 1..n}

Letters == {"f", "g", "u"}

-----------------------------------------------------------------------------
(* get_deprecated_msg *)

FmtClass == <<"C", "a", "l", "l", " ", "t", "o", " ", "d", "e", "p", "r", "e", "c", "a", "t", "e", "d", " ", "c", "l", "a", "s", "s", " ", "{name}", ".">>
FmtFunction == <<"C", "a", "l", "l", " ", "t", "o", " ", "d", "e", "p", "r", "e", "c", "a", "t", "e", "d", " ", "f", "u", "n", "c", "t", "i", "o", "n", " ", "(", "o", "r", " ", "s", "t", "a", "t", "i", "c", "m", "e", "t", "h", "o", "d", ")", " ", "{name}", ".">>
FmtClassMethod == <<"C", "a", "l", "l", " ", "t", "o", " ", "d", "e", "p", "r", "e", "c", "a", "t", "e", "d", " ", "c", "l", "a", "s", "s", " ", "m", "e", "t", "h", "o", "d", " ", "{name}", ".">>
FmtMethod == <<"C", "a", "l", "l", " ", "t", "o", " ", "d", "e", "p", "r", "e", "c", "a", "t", "e", "d", " ", "m", "e", "t", "h", "o", "d", " ", "{name}", ".">>
FmtReason == <<" ", "(", "{reason}", ")">>
FmtVersion == <<" ", "-", "-", " ", "D", "e", "p", "r", "e", "c", "a", "t", "e", "d", " ", "s", "i", "n", "c", "e", " ", "v", "e", "r", "s", "i", "o", "n", " ", "{version}", ".">>

\* str.format(name=..., reason=..., version=...): each replacement field of the
\* template is replaced by the value, every other character is copied.
RECURSIVE Format(_, _, _, _)
Format(fmt, name, reason, version) ==
    IF fmt = <<>> THEN <<>>
    ELSE LET h == Head(fmt)
             piece == IF h = "{name}" THEN name
                      ELSE IF h = "{reason}" THEN reason
                      ELSE IF h = "{version}" THEN version
                      ELSE <<h>>
         IN  piece \o Format(Tail(fmt), name, reason, version)

\* instance is "None", "class" (inspect.isclass(instance)) or "object".
FmtHead(wrappedIsClass, instance) ==
    IF instance = "None"
    THEN IF wrappedIsClass THEN FmtClass ELSE FmtFunction
    ELSE IF instance = "class" THEN FmtClassMethod ELSE FmtMethod

\* The reason clause is added when the version is given.
GetDeprecatedMsgBadReason(wrappedIsClass, instance, name, reason, version) ==
    Format(FmtHead(wrappedIsClass, instance)
               \o (IF version # <<>> THEN FmtReason ELSE <<>>)
               \o (IF version # <<>> THEN FmtVersion ELSE <<>>),
           name, reason, version)

get_deprecated_msg(wrappedIsClass, instance, name, reason, version) ==
    Format(FmtHead(wrappedIsClass, instance)
               \o (IF reason # <<>> THEN FmtReason ELSE <<>>)
               \o (IF version # <<>> THEN FmtVersion ELSE <<>>),
           name, reason, version)

-----------------------------------------------------------------------------
(* The decorated entities and the decorator's configuration *)

AllThreads == {"t1", "t2"}

Entities == {"Cls", "fn"}

\* What the entity is: "Cls" is a class, "fn" is a function (or static
\* method), a method or a class method.
KindsOf(e) == IF e = "Cls" THEN {"class"} ELSE {"function", "method", "classmethod"}

EntityName(e) == IF e = "Cls" THEN <<"C">> ELSE <<"f">>

\* The instance wrapt hands to the wrapper for a call of an entity of this kind.
InstanceOf(kind) ==
    IF kind = "method" THEN "object"
    ELSE IF kind = "classmethod" THEN "class"
    ELSE "None"

ValidActions == {"error", "ignore", "always", "default", "module", "once"}

\* The values a caller may pass as action: None, a valid one, or any other string.
ActionInputs == ValidActions \cup {"None", "bogus"}

\* "if self.action:"
Truthy(a) == a \notin {"None", ""}

Undecorated ==
    [decorated |-> FALSE, kind |-> "none", reason |-> <<>>, version |-> <<>>,
     action |-> "None", category |-> "DeprecationWarning"]

\* ClassicAdapter.__init__ stores its arguments; nothing is validated.
ClassicAdapterInit(reason, version, action, category) ==
    [decorated |-> FALSE, kind |-> "none", reason |-> reason, version |-> version,
     action |-> action, category |-> category]

SampleReason == <<"u", "s", "e", " ", "g">>

SampleVersion == <<"2", ".", "0">>

\* Arguments of the wrapped callable; "boom" makes the wrapped logic raise.
Args == {"x", "boom"}

NoResult == [kind |-> "none", by |-> "none", val |-> "none"]

\* The undecorated callable: what it returns, or that it raises.
Wrapped(e, a) ==
    [kind |-> IF a = "boom" THEN "exc" ELSE "ret", by |-> e, val |-> a]

-----------------------------------------------------------------------------
(* The warnings subsystem, as driven by the wrapper *)

Filter(a, c) == [action |-> a, category |-> c]

\* issubclass(category, filter category), for a DeprecationWarning (sub)category.
Matches(category, f) == f.category \in {"Warning", category}

AmbientChoices ==
    { <<>>,
      <<Filter("ignore", "DeprecationWarning")>>,
      <<Filter("error", "Warning")>>,
      <<Filter("always", "DeprecationWarning")>>,
      <<Filter("once", "DeprecationWarning")>>,
      <<Filter("error", "UserWarning"), Filter("module", "DeprecationWarning")>> }

\* The action of the first filter that matches, else warnings.defaultaction.
RECURSIVE MatchAction(_, _)
MatchAction(fl, category) ==
    IF fl = <<>> THEN "default"
    ELSE IF Matches(category, Head(fl)) THEN Head(fl).action
    ELSE MatchAction(Tail(fl), category)

\* list.remove(item): drops the first occurrence; the caller ignores ValueError.
RECURSIVE RemoveFirst(_, _)
RemoveFirst(fl, item) ==
    IF fl = <<>> THEN <<>>
    ELSE IF Head(fl) = item THEN Tail(fl)
    ELSE <<Head(fl)>> \o RemoveFirst(Tail(fl), item)

\* The filter is put behind the filters already there.
AddFilterAppend(fl, item) == RemoveFirst(fl, item) \o <<item>>

\* warnings._add_filter(..., append=False)
AddFilter(fl, item) == <<item>> \o RemoveFirst(fl, item)

\* warnings.warn -> warn_explicit (the interpreter's implementation) for the
\* warning of entity e under the list currently installed.  The call site's
\* registry is emptied when the filters changed since it was last used.  out:
\* "shown", "suppressed" or "raised"; eff: what decided it.
WarnExplicit(e) ==
    LET reg0 == IF stale THEN {} ELSE registry
        mod0 == IF stale THEN {} ELSE modreg
        a    == MatchAction(heap[modFilters], cfg[e].category)
        R(out, eff, r, m) == [out |-> out, eff |-> eff, registry |-> r, modreg |-> m]
    IN  IF e \in reg0 THEN R("suppressed", "registry", reg0, mod0)
        ELSE IF a = "error" THEN R("raised", a, reg0, mod0)
        ELSE IF a = "ignore" THEN R("suppressed", a, reg0, mod0)
        ELSE IF a = "always" THEN R("shown", a, reg0, mod0)
        ELSE IF a \in {"once", "module"} THEN
            R(IF e \in mod0 THEN "suppressed" ELSE "shown", a,
              reg0 \cup {e}, mod0 \cup {e})
        ELSE R("shown", a, reg0 \cup {e}, mod0)

-----------------------------------------------------------------------------
(* Bookkeeping of what a call did *)

NoCall ==
    [outcome |-> "none", disp |-> 0, shown |-> 0, escalated |-> FALSE, ran |-> 0,
     flagSeen |-> FALSE, result |-> NoResult, msg |-> <<>>, eff |-> "none",
     error |-> "none", pre |-> <<>>]

NoStats == [calls |-> 0, done |-> 0, disp |-> 0, shown |-> 0, escalated |-> 0, ran |-> 0]

\* The filter configuration in force: the list warnings.filters refers to.
Ambient == heap[modFilters]

IsClass(e) == cfg[e].kind = "class"

-----------------------------------------------------------------------------
(* Decoration: deprecated(), ClassicAdapter.__init__ and ClassicAdapter.__call__ *)

\* ClassicAdapter.__call__(wrapped): a class gets its __new__ patched and its
\* flag cleared; the result is the wrapper around wrapped.  No argument of the
\* adapter is looked at.
AdapterCall(adapter, e, kind) ==
    /\ ~cfg[e].decorated
    /\ kind \in KindsOf(e)
    /\ \A x \in Entities : stats[x].calls = 0
    /\ cfg' = [cfg EXCEPT ![e] = [adapter EXCEPT !.decorated = TRUE, !.kind = kind]]
    /\ issued' = [issued EXCEPT ![e] = IF kind = "class" THEN FALSE ELSE @]
    /\ UNCHANGED <<threads, heap, modFilters, stale, registry, modreg, pc,
                   callee, arg, saved, exc, cur, stats, ambient0, budget>>
    /\ UNCHANGED msgVars

\* deprecated(target): len(args) == 1 and callable(args[0]).
DeprecatedBare(e, kind) ==
    AdapterCall(ClassicAdapterInit(<<>>, <<>>, "None", "DeprecationWarning"), e, kind)

\* deprecated(reason=..., version=..., action=...)(target)
DeprecatedConfigured(e, kind, action) ==
    AdapterCall(ClassicAdapterInit(SampleReason, SampleVersion, action,
                                   "DeprecationWarning"), e, kind)

-----------------------------------------------------------------------------
(* The wrapper: __call__ defines wrapper twice, and the second definition is   *)
(* the one that is applied to wrapped and the one deprecated_new finds under  *)
(* that name; the first is never called.                                      *)

MsgOf(e) ==
    get_deprecated_msg(IsClass(e), InstanceOf(cfg[e].kind), EntityName(e),
                       cfg[e].reason, cfg[e].version)

Bump(e, field, n) == [stats EXCEPT ![e][field] = @ + n]

\* The call of thread t ends by raising err.
Raised(c, err) == [c EXCEPT !.outcome = "raised", !.error = err]

\* What one warnings.warn(msg, ...) adds to the record of the call.
Dispatched(c, e, w) ==
    [c EXCEPT !.disp = @ + 1,
              !.shown = @ + (IF w.out = "shown" THEN 1 ELSE 0),
              !.escalated = (w.out = "raised"),
              !.eff = w.eff,
              !.msg = MsgOf(e)]

DispatchedStats(e, w) ==
    [stats EXCEPT ![e].disp = @ + 1,
                  ![e].shown = @ + (IF w.out = "shown" THEN 1 ELSE 0),
                  ![e].escalated = @ + (IF w.out = "raised" THEN 1 ELSE 0)]

\* Where the wrapper goes once the warning has been emitted without raising.
AfterWarn(e) == IF IsClass(e) THEN "setflag" ELSE "delegate"

\* A call enters the wrapper; for a class the flag is read here.
WrapperCall(t, e, a) ==
    /\ t \in threads
    /\ pc[t] = "idle"
    /\ cfg[e].decorated
    /\ budget > 0
    /\ budget' = budget - 1
    /\ callee' = [callee EXCEPT ![t] = e]
    /\ arg' = [arg EXCEPT ![t] = a]
    /\ cur' = [cur EXCEPT ![t] = [NoCall EXCEPT !.outcome = "running",
                                                !.flagSeen = (IsClass(e) /\ issued[e]),
                                                !.pre = Ambient]]
    /\ stats' = Bump(e, "calls", 1)
    /\ pc' = [pc EXCEPT ![t] = IF IsClass(e) /\ issued[e] THEN "delegate" ELSE "emit"]
    /\ UNCHANGED <<threads, cfg, issued, heap, modFilters, stale, registry, modreg,
                   saved, exc, ambient0>>
    /\ UNCHANGED msgVars

\* The list objects still referred to: the installed one and those saved by a
\* with block that has not been left.
Live(mf, pcs, sv) ==
    {mf} \cup {sv[t] : t \in {u \in AllThreads : pcs[u] \in {"entered", "filtered", "exiting"}}}

\* Lists nothing refers to are freed: their cells are cleared and the heap is
\* cut back to its last live cell.
RECURSIVE Collect(_, _)
Collect(h, live) ==
    IF h # <<>> /\ Len(h) \notin live
    THEN Collect(SubSeq(h, 1, Len(h) - 1), live)
    ELSE [i \in 1..Len(h) |-> IF i \in live THEN h[i] ELSE <<>>]

\* with warnings.catch_warnings(): __enter__ saves the installed list and
\* installs a copy of it.
CatchEnter(t) ==
    /\ pc[t] = "emit"
    /\ Truthy(cfg[callee[t]].action)
    /\ saved' = [saved EXCEPT ![t] = modFilters]
    /\ heap' = Append(heap, heap[modFilters])
    /\ modFilters' = Len(heap) + 1
    /\ stale' = TRUE
    /\ pc' = [pc EXCEPT ![t] = "entered"]
    /\ UNCHANGED <<threads, cfg, issued, registry, modreg, callee, arg, exc,
                   cur, stats, ambient0, budget>>
    /\ UNCHANGED msgVars

\* warnings.simplefilter(self.action, self.category): asserts the action is a
\* known one, then puts the filter in front of the installed list, in place.
SimpleFilter(t) ==
    LET e == callee[t] IN
    /\ pc[t] = "entered"
    /\ IF cfg[e].action \in ValidActions
       THEN /\ heap' = [heap EXCEPT ![modFilters] =
                            AddFilter(@, Filter(cfg[e].action, cfg[e].category))]
            /\ stale' = TRUE
            /\ pc' = [pc EXCEPT ![t] = "filtered"]
            /\ exc' = exc
       ELSE /\ exc' = [exc EXCEPT ![t] = "AssertionError"]
            /\ pc' = [pc EXCEPT ![t] = "exiting"]
            /\ UNCHANGED <<heap, stale>>
    /\ UNCHANGED <<threads, cfg, issued, modFilters, registry, modreg, callee,
                   arg, saved, cur, stats, ambient0, budget>>
    /\ UNCHANGED msgVars

\* warnings.warn(msg, ...) inside the with block.
WarnScoped(t) ==
    LET e == callee[t]
        w == WarnExplicit(e)
    IN
    /\ pc[t] = "filtered"
    /\ cur' = [cur EXCEPT ![t] = Dispatched(@, e, w)]
    /\ stats' = DispatchedStats(e, w)
    /\ registry' = w.registry
    /\ modreg' = w.modreg
    /\ stale' = FALSE
    /\ exc' = [exc EXCEPT ![t] = IF w.out = "raised" THEN "Warning" ELSE "none"]
    /\ pc' = [pc EXCEPT ![t] = "exiting"]
    /\ UNCHANGED <<threads, cfg, issued, heap, modFilters, callee, arg, saved, ambient0,
                   budget>>
    /\ UNCHANGED msgVars

\* The with block swallows what was raised inside it.
CatchExitSwallows(t) ==
    LET e == callee[t] IN
    /\ pc[t] = "exiting"
    /\ modFilters' = saved[t]
    /\ saved' = [saved EXCEPT ![t] = 0]
    /\ heap' = Collect(heap, Live(saved[t], [pc EXCEPT ![t] = "idle"], saved))
    /\ stale' = TRUE
    /\ pc' = [pc EXCEPT ![t] = AfterWarn(e)]
    /\ exc' = [exc EXCEPT ![t] = "none"]
    /\ UNCHANGED <<threads, cfg, issued, registry, modreg, callee, arg, cur, stats,
                   ambient0, budget>>
    /\ UNCHANGED msgVars

\* The with block is left without installing the saved list again.
CatchExitNoRestore(t) ==
    LET e == callee[t] IN
    /\ pc[t] = "exiting"
    /\ saved' = [saved EXCEPT ![t] = 0]
    /\ IF exc[t] # "none"
       THEN /\ cur' = [cur EXCEPT ![t] = Raised(@, exc[t])]
            /\ stats' = Bump(e, "done", 1)
            /\ pc' = [pc EXCEPT ![t] = "idle"]
       ELSE /\ pc' = [pc EXCEPT ![t] = AfterWarn(e)]
            /\ UNCHANGED <<cur, stats>>
    /\ exc' = [exc EXCEPT ![t] = "none"]
    /\ UNCHANGED <<threads, cfg, issued, heap, modFilters, stale, registry, modreg,
                   callee, arg, ambient0, budget>>
    /\ UNCHANGED msgVars

\* catch_warnings.__exit__: the saved list is installed again; an exception
\* raised inside the block leaves the wrapper.
CatchExit(t) ==
    LET e == callee[t] IN
    /\ pc[t] = "exiting"
    /\ modFilters' = saved[t]
    /\ saved' = [saved EXCEPT ![t] = 0]
    /\ heap' = Collect(heap, Live(saved[t], [pc EXCEPT ![t] = "idle"], saved))
    /\ stale' = TRUE
    /\ IF exc[t] # "none"
       THEN /\ cur' = [cur EXCEPT ![t] = Raised(@, exc[t])]
            /\ stats' = Bump(e, "done", 1)
            /\ pc' = [pc EXCEPT ![t] = "idle"]
       ELSE /\ pc' = [pc EXCEPT ![t] = AfterWarn(e)]
            /\ UNCHANGED <<cur, stats>>
    /\ exc' = [exc EXCEPT ![t] = "none"]
    /\ UNCHANGED <<threads, cfg, issued, registry, modreg, callee, arg,
                   ambient0, budget>>
    /\ UNCHANGED msgVars

\* warnings.warn(msg, ...) under the ambient filters (action is None or empty).
WarnAmbient(t) ==
    LET e == callee[t]
        w == WarnExplicit(e)
    IN
    /\ pc[t] = "emit"
    /\ ~Truthy(cfg[e].action)
    /\ registry' = w.registry
    /\ modreg' = w.modreg
    /\ stale' = FALSE
    /\ IF w.out = "raised"
       THEN /\ cur' = [cur EXCEPT ![t] = Raised(Dispatched(@, e, w), "Warning")]
            /\ stats' = [DispatchedStats(e, w) EXCEPT ![e].done = @ + 1]
            /\ pc' = [pc EXCEPT ![t] = "idle"]
       ELSE /\ cur' = [cur EXCEPT ![t] = Dispatched(@, e, w)]
            /\ stats' = DispatchedStats(e, w)
            /\ pc' = [pc EXCEPT ![t] = AfterWarn(e)]
    /\ UNCHANGED <<threads, cfg, issued, heap, modFilters, callee, arg, saved, exc,
                   ambient0, budget>>
    /\ UNCHANGED msgVars

\* The flag is written somewhere the check does not read.
SetIssuedElsewhere(t) ==
    /\ pc[t] = "setflag"
    /\ pc' = [pc EXCEPT ![t] = "delegate"]
    /\ UNCHANGED <<threads, cfg, issued, heap, modFilters, stale, registry, modreg,
                   callee, arg, saved, exc, cur, stats, ambient0, budget>>
    /\ UNCHANGED msgVars

\* wrapped._deprecated_warning_issued = True
SetIssued(t) ==
    /\ pc[t] = "setflag"
    /\ issued' = [issued EXCEPT ![callee[t]] = TRUE]
    /\ pc' = [pc EXCEPT ![t] = "delegate"]
    /\ UNCHANGED <<threads, cfg, heap, modFilters, stale, registry, modreg, callee, arg, saved, exc, cur, stats, ambient0, budget>>
    /\ UNCHANGED msgVars

\* The patched __new__ emits the warning a second time.
DeprecatedNewWarns(c) == [c EXCEPT !.disp = @ + 1, !.shown = @ + 1]

\* deprecated_new, the __new__ installed on a decorated class: by the time it
\* runs, the name wrapper is the decorator built last, so wrapper(cls, None,
\* args, kwargs) only builds a wrapper object around cls and drops it; nothing is
\* dispatched.  Then object.__new__(cls) or the original __new__ makes the instance.
DeprecatedNew(c) == c

\* The wrapper calls the wrapped logic and drops what it returns.
DelegateNoReturn(t) ==
    LET e == callee[t]
        r == Wrapped(e, arg[t])
        c == IF IsClass(e) THEN DeprecatedNew(cur[t]) ELSE cur[t]
    IN
    /\ pc[t] = "delegate"
    /\ cur' = [cur EXCEPT ![t] =
                 [c EXCEPT !.ran = @ + 1,
                           !.result = IF r.kind = "exc" THEN r ELSE [r EXCEPT !.val = "None"],
                           !.outcome = IF r.kind = "exc" THEN "raised" ELSE "returned",
                           !.error = IF r.kind = "exc" THEN "wrapped" ELSE "none"]]
    /\ stats' = [stats EXCEPT ![e].ran = @ + 1, ![e].done = @ + 1]
    /\ pc' = [pc EXCEPT ![t] = "idle"]
    /\ UNCHANGED <<threads, cfg, issued, heap, modFilters, stale, registry, modreg,
                   callee, arg, saved, exc, ambient0, budget>>
    /\ UNCHANGED msgVars

\* return wrapped(*args, **kwargs)
Delegate(t) ==
    LET e == callee[t]
        r == Wrapped(e, arg[t])
        c == IF IsClass(e) THEN DeprecatedNew(cur[t]) ELSE cur[t]
    IN
    /\ pc[t] = "delegate"
    /\ cur' = [cur EXCEPT ![t] =
                 [c EXCEPT !.ran = @ + 1,
                           !.result = r,
                           !.outcome = IF r.kind = "exc" THEN "raised" ELSE "returned",
                           !.error = IF r.kind = "exc" THEN "wrapped" ELSE "none"]]
    /\ stats' = [stats EXCEPT ![e].ran = @ + 1, ![e].done = @ + 1]
    /\ pc' = [pc EXCEPT ![t] = "idle"]
    /\ UNCHANGED <<threads, cfg, issued, heap, modFilters, stale, registry, modreg,
                   callee, arg, saved, exc, ambient0, budget>>
    /\ UNCHANGED msgVars

-----------------------------------------------------------------------------
(* get_deprecated_msg on its own *)

NameChars == {"f", "g"}

VersionChars == {"1", "."}

\* The backquote character (a string of the module cannot hold it).
Backquote == "<backquote>"

\* Pieces a reason is made of: a word, the characters of the markup on their
\* own, and a cross-reference, role f and target g between backquotes.
ReasonParts ==
    { <<"u">>, <<":">>, <<Backquote>>, <<":", "f", ":", Backquote, "g", Backquote>> }

Reasons == {Flatten(ps) : ps \in SeqsUpTo(ReasonParts, MaxReasonParts)}

MsgInputs ==
    [isClass : BOOLEAN, instance : {"None", "class", "object"},
     name : NonEmptySeqsUpTo(NameChars, MaxNameLen),
     reason : Reasons,
     version : SeqsUpTo(VersionChars, MaxVersionLen)]

NoMsgIn ==
    [isClass |-> FALSE, instance |-> "None", name |-> <<"f">>, reason |-> <<>>,
     version |-> <<>>]

NoMsgOut == [built |-> FALSE, text |-> <<>>]

BuildMsg ==
    /\ ~msgOut.built
    /\ msgOut' = [built |-> TRUE,
                  text |-> get_deprecated_msg(msgIn.isClass, msgIn.instance, msgIn.name,
                                              msgIn.reason, msgIn.version)]
    /\ UNCHANGED msgIn
    /\ UNCHANGED wrapperVars

-----------------------------------------------------------------------------
(* Specifications *)

InitWrapper(T, b, amb) ==
    /\ threads = T
    /\ cfg = [e \in Entities |-> Undecorated]
    /\ issued = [e \in Entities |-> FALSE]
    /\ ambient0 \in amb
    /\ heap = <<ambient0>>
    /\ modFilters = 1
    /\ stale = FALSE
    /\ registry = {}
    /\ modreg = {}
    /\ pc = [t \in AllThreads |-> "idle"]
    /\ callee = [t \in AllThreads |-> "Cls"]
    /\ arg = [t \in AllThreads |-> "x"]
    /\ saved = [t \in AllThreads |-> 0]
    /\ exc = [t \in AllThreads |-> "none"]
    /\ cur = [t \in AllThreads |-> NoCall]
    /\ stats = [e \in Entities |-> NoStats]
    /\ budget = b

\* One thread.
Init ==
    InitWrapper({"t1"}, MaxCalls, AmbientChoices) /\ msgIn = NoMsgIn /\ msgOut = NoMsgOut

\* Two threads.
InitConc ==
    InitWrapper(AllThreads, MaxCallsConc, AmbientChoices)
        /\ msgIn = NoMsgIn /\ msgOut = NoMsgOut

InitMsg == InitWrapper({}, 0, {<<>>}) /\ msgIn \in MsgInputs /\ msgOut = NoMsgOut

Kinds == {"class", "function", "method", "classmethod"}

Next ==
    \/ \E e \in Entities, k \in Kinds : DeprecatedBare(e, k)
    \/ \E e \in Entities, k \in Kinds, a \in ActionInputs : DeprecatedConfigured(e, k, a)
    \/ \E t \in AllThreads, e \in Entities, a \in Args : WrapperCall(t, e, a)
    \/ \E t \in AllThreads : CatchEnter(t)
    \/ \E t \in AllThreads : SimpleFilter(t)
    \/ \E t \in AllThreads : WarnScoped(t)
    \/ \E t \in AllThreads : CatchExit(t)
    \/ \E t \in AllThreads : WarnAmbient(t)
    \/ \E t \in AllThreads : SetIssued(t)
    \/ \E t \in AllThreads : Delegate(t)

\* The two-thread specification decorates one entity, a class or a function,
\* and both threads call it.
KindsConc == {"class", "function"}

NoneDecorated == \A x \in Entities : ~cfg[x].decorated

NextConc ==
    \/ \E e \in Entities, k \in KindsConc : NoneDecorated /\ DeprecatedBare(e, k)
    \/ \E e \in Entities, k \in KindsConc, a \in ActionInputs :
           NoneDecorated /\ DeprecatedConfigured(e, k, a)
    \/ \E t \in AllThreads, e \in Entities : WrapperCall(t, e, "x")
    \/ \E t \in AllThreads : CatchEnter(t)
    \/ \E t \in AllThreads : SimpleFilter(t)
    \/ \E t \in AllThreads : WarnScoped(t)
    \/ \E t \in AllThreads : CatchExit(t)
    \/ \E t \in AllThreads : WarnAmbient(t)
    \/ \E t \in AllThreads : SetIssued(t)
    \/ \E t \in AllThreads : Delegate(t)

NextMsg == BuildMsg

Spec == Init /\ [][Next]_vars

SpecConc == InitConc /\ [][NextConc]_vars

SpecMsg == InitMsg /\ [][NextMsg]_vars

-----------------------------------------------------------------------------
(* Properties *)

AllIdle == \A t \in threads : pc[t] = "idle"

\* Thread t has made a call and the call is over.
Completed(t) ==
    /\ t \in threads
    /\ pc[t] = "idle"
    /\ cur[t].outcome \in {"returned", "raised"}

InvalidAction(e) == Truthy(cfg[e].action) /\ cfg[e].action \notin ValidActions

DecoratedClasses == {e \in Entities : cfg[e].decorated /\ IsClass(e)}

DecoratedRoutines == {e \in Entities : cfg[e].decorated /\ ~IsClass(e)}

\* C1 as stated: every call of a decorated function, method, static method or
\* class method dispatches exactly one warning and gives back what the
\* undecorated callable gives for the same argument.
C1_Original ==
    \A t \in threads :
        (Completed(t) /\ callee[t] \in DecoratedRoutines)
            => /\ cur[t].disp = 1
               /\ cur[t].result = Wrapped(callee[t], arg[t])

\* C1, amended: every call of a decorated non-class callable dispatches exactly
\* one warning, the n-th like the first, unless the configured action is not a
\* valid one, in which case the filter is refused before any dispatch; and the
\* call gives back what the undecorated callable gives for the same argument
\* unless the dispatch was escalated to an error or the action refused, in
\* which case it raises and the wrapped logic is not run.
C1_EveryCallDispatchesOnce ==
    /\ \A t \in threads :
        (Completed(t) /\ callee[t] \in DecoratedRoutines) =>
            LET e == callee[t]
                c == cur[t]
            IN  /\ c.disp = IF InvalidAction(e) THEN 0 ELSE 1
                /\ ~c.flagSeen
                /\ IF InvalidAction(e) \/ c.escalated
                   THEN /\ c.outcome = "raised"
                        /\ c.error = IF InvalidAction(e) THEN "AssertionError" ELSE "Warning"
                        /\ c.ran = 0
                        /\ c.result = NoResult
                   ELSE /\ c.ran = 1
                        /\ c.result = Wrapped(e, arg[t])
                        /\ c.outcome = IF c.result.kind = "exc" THEN "raised" ELSE "returned"
    /\ \A e \in DecoratedRoutines :
        AllIdle => stats[e].disp = IF InvalidAction(e) THEN 0 ELSE stats[e].done

\* A function has been called at least twice, both calls dispatched, and the
\* last one returned the wrapped value.
C1_Witness ==
    \E t \in threads :
        /\ Completed(t)
        /\ callee[t] \in DecoratedRoutines
        /\ stats[callee[t]].done >= 2
        /\ stats[callee[t]].disp = stats[callee[t]].done
        /\ cur[t].outcome = "returned"
        /\ cur[t].result = Wrapped(callee[t], arg[t])

\* C2 as stated: the first instantiation of a decorated class dispatches the
\* warning and sets the flag, later ones dispatch nothing: at most one dispatch
\* per class, and at most one per instantiation.
C2_Original ==
    \A e \in DecoratedClasses :
        /\ stats[e].disp <= 1
        /\ (AllIdle /\ stats[e].done >= 1) => issued[e]
        /\ \A t \in threads : callee[t] = e => cur[t].disp <= 1

\* C2, amended: in one thread, an instantiation of a decorated class dispatches
\* at most one warning (the patched __new__ adds none); the first instantiation
\* whose dispatch is not escalated to an error sets the flag, and no later one
\* dispatches, so at most one warning is shown and at most one dispatch is not
\* escalated; an escalated dispatch (or a refused action) leaves the flag unset
\* and the wrapped class uninstantiated, so the next instantiation dispatches again.
C2_ClassWarnsOnceUnlessEscalated ==
    \A e \in DecoratedClasses :
        /\ stats[e].shown <= 1
        /\ stats[e].disp <= stats[e].escalated + 1
        /\ issued[e] => stats[e].disp = stats[e].escalated + 1
        /\ (AllIdle /\ ~issued[e]) => stats[e].disp = stats[e].escalated
        /\ (AllIdle /\ ~issued[e]) => stats[e].ran = 0
        /\ \A t \in threads :
            callee[t] = e =>
                /\ cur[t].disp <= 1
                /\ cur[t].flagSeen => cur[t].disp = 0
                /\ (Completed(t) /\ cur[t].disp = 1 /\ ~cur[t].escalated) => issued[e]
                /\ (Completed(t) /\ cur[t].escalated) => (cur[t].ran = 0 /\ ~issued[e])

\* A class has been instantiated three times: one dispatch, the flag set.
C2_Witness ==
    \E e \in DecoratedClasses :
        /\ AllIdle
        /\ stats[e].done >= 3
        /\ stats[e].ran >= 3
        /\ stats[e].disp = 1
        /\ issued[e]

\* C3: with action "error" every call of the decorated entity, function or
\* class, first or later, raises the warning as an error before delegation; the
\* wrapped logic never runs.
C3_ErrorAlwaysRaises ==
    \A e \in Entities :
        (cfg[e].decorated /\ cfg[e].action = "error") =>
            /\ stats[e].ran = 0
            /\ stats[e].shown = 0
            /\ \A t \in threads :
                callee[t] = e =>
                    /\ pc[t] \notin {"setflag", "delegate"}
                    /\ Completed(t) =>
                        /\ cur[t].outcome = "raised"
                        /\ cur[t].error = "Warning"
                        /\ cur[t].disp = 1
                        /\ cur[t].ran = 0
                        /\ cur[t].result = NoResult

\* A class decorated with action "error" has been instantiated twice and
\* raised both times.
C3_Witness ==
    \E e \in DecoratedClasses :
        /\ cfg[e].action = "error"
        /\ AllIdle
        /\ stats[e].done >= 2
        /\ stats[e].escalated = stats[e].done

\* C4: in one thread the filter configuration after a call is the one before
\* it, on every way out; with an action the override is in force only from
\* simplefilter to the end of the with block, and the list that was installed
\* before is never written to; without an action nothing is modified.
C4_FiltersRestored ==
    /\ heap[1] = ambient0
    /\ \A t \in threads :
        /\ pc[t] \in {"idle", "emit", "setflag", "delegate"}
               => (modFilters = 1 /\ Len(heap) = 1)
        /\ pc[t] = "entered" => Ambient = cur[t].pre
        /\ Completed(t) => Ambient = cur[t].pre
        /\ (cur[t].outcome # "none" /\ ~Truthy(cfg[callee[t]].action))
               => (modFilters = 1 /\ Len(heap) = 1 /\ Ambient = cur[t].pre)

\* A call whose action is set has ended by the escalated warning, another way
\* out than a return.
C4_Witness ==
    \E t \in threads :
        /\ Completed(t)
        /\ Truthy(cfg[callee[t]].action)
        /\ cur[t].error = "Warning"
        /\ ambient0 # <<>>
        /\ Ambient = ambient0

\* C5: no decorated entity carries an action outside the enumerated set;
\* decoration would have failed.
C5_InvalidActionRejected ==
    \A e \in Entities : cfg[e].decorated => ~InvalidAction(e)

\* C6 as stated: with action "always" every call and every instantiation
\* shows a warning.
C6_Original ==
    \A t \in threads :
        (Completed(t) /\ cfg[callee[t]].decorated /\ cfg[callee[t]].action = "always")
            => cur[t].shown = 1

\* C6, amended: with action "always" every call of a decorated function or
\* method shows a warning, whatever the ambient filters and whatever was shown
\* before; an instantiation of a decorated class shows one exactly when the
\* per-class flag was not yet set on entry, so only the first does.
C6_AlwaysShowsUnlessClassFlag ==
    /\ \A t \in threads :
        (Completed(t) /\ cfg[callee[t]].decorated /\ cfg[callee[t]].action = "always")
            => /\ cur[t].shown = IF cur[t].flagSeen THEN 0 ELSE 1
               /\ ~cur[t].flagSeen => cur[t].eff = "always"
               /\ cur[t].flagSeen => IsClass(callee[t])
    /\ \A e \in Entities :
        (AllIdle /\ cfg[e].decorated /\ cfg[e].action = "always")
            => stats[e].shown =
                   IF IsClass(e) THEN (IF stats[e].done = 0 THEN 0 ELSE 1)
                   ELSE stats[e].done

\* A function with action "always" has shown its warning twice although the
\* ambient filters ignore deprecation warnings.
C6_Witness ==
    \E e \in DecoratedRoutines :
        /\ cfg[e].action = "always"
        /\ ambient0 = <<Filter("ignore", "DeprecationWarning")>>
        /\ stats[e].shown >= 2
        /\ AllIdle

HeadClass == <<"C", "a", "l", "l", " ", "t", "o", " ", "d", "e", "p", "r", "e", "c", "a", "t", "e", "d", " ", "c", "l", "a", "s", "s", " ">>
HeadFunction == <<"C", "a", "l", "l", " ", "t", "o", " ", "d", "e", "p", "r", "e", "c", "a", "t", "e", "d", " ", "f", "u", "n", "c", "t", "i", "o", "n", " ", "(", "o", "r", " ", "s", "t", "a", "t", "i", "c", "m", "e", "t", "h", "o", "d", ")", " ">>
HeadClassMethod == <<"C", "a", "l", "l", " ", "t", "o", " ", "d", "e", "p", "r", "e", "c", "a", "t", "e", "d", " ", "c", "l", "a", "s", "s", " ", "m", "e", "t", "h", "o", "d", " ">>
HeadMethod == <<"C", "a", "l", "l", " ", "t", "o", " ", "d", "e", "p", "r", "e", "c", "a", "t", "e", "d", " ", "m", "e", "t", "h", "o", "d", " ">>
SinceVersion == <<" ", "-", "-", " ", "D", "e", "p", "r", "e", "c", "a", "t", "e", "d", " ", "s", "i", "n", "c", "e", " ", "v", "e", "r", "s", "i", "o", "n", " ">>

\* The message C7 describes.
ExpectedMsg(in) ==
    LET head == IF in.instance = "None" /\ in.isClass THEN HeadClass
                ELSE IF in.instance = "None" THEN HeadFunction
                ELSE IF in.instance = "class" THEN HeadClassMethod
                ELSE HeadMethod
    IN  head \o in.name \o <<".">>
             \o (IF in.reason # <<>> THEN <<" ", "(">> \o in.reason \o <<")">> ELSE <<>>)
             \o (IF in.version # <<>> THEN SinceVersion \o in.version \o <<".">> ELSE <<>>)

\* C7: the message is the head chosen by (wrapped is a class, instance) with
\* the name, then " (reason)" iff the reason is not empty, then
\* " -- Deprecated since version V." iff the version is not empty.
C7_MessageFormat ==
    msgOut.built => msgOut.text = ExpectedMsg(msgIn)

\* A class-method message with only a version has been built.
C7_Witness ==
    /\ msgOut.built
    /\ msgIn.instance = "class"
    /\ msgIn.reason = <<>>
    /\ msgIn.version # <<>>
    /\ Len(msgIn.name) = MaxNameLen

\* s holds cross-reference markup with its role: a colon, letters, a colon and a
\* backquoted target.
HasRolePrefix(s) ==
    \E i, j, k \in 1..Len(s) :
        /\ i + 1 < j
        /\ j + 2 <= k
        /\ s[i] = ":"
        /\ s[j] = ":"
        /\ \A m \in (i + 1)..(j - 1) : s[m] \in Letters
        /\ s[j + 1] = Backquote
        /\ s[k] = Backquote
        /\ \A m \in (j + 2)..(k - 1) : s[m] # Backquote

\* C8: no role prefix of cross-reference markup in the reason survives into
\* the message.
C8_RolePrefixStripped ==
    msgOut.built => ~HasRolePrefix(msgOut.text)

\* C9, its last part as stated: once the concurrent instantiations of a class
\* have finished, its flag is set.
C9_Original ==
    \A e \in DecoratedClasses : (AllIdle /\ stats[e].done >= 1) => issued[e]

\* C9, amended: with two threads instantiating the same class, the check of the
\* flag and its setting are separate steps, so each thread may dispatch once
\* before it sees the flag set: more than one warning is possible, but every
\* dispatch belongs to a call that read the flag unset, no thread has more than
\* one dispatch that is not escalated, and once all instantiations have finished
\* the flag is set and further instantiations dispatch nothing, provided one of
\* them got its warning out without it being escalated to an error.
C9_RaceBounded ==
    \A e \in DecoratedClasses :
        /\ stats[e].disp <= stats[e].escalated + Cardinality(threads)
        /\ \A t \in threads : (callee[t] = e /\ cur[t].flagSeen) => cur[t].disp = 0
        /\ (AllIdle /\ stats[e].disp > stats[e].escalated) => issued[e]
        /\ (AllIdle /\ stats[e].ran >= 1) => issued[e]

\* Both threads have dispatched the warning of the same class, neither
\* escalated, and a third instantiation found the flag set.
C9_Witness ==
    \E e \in DecoratedClasses :
        /\ AllIdle
        /\ stats[e].disp = 2
        /\ stats[e].escalated = 0
        /\ stats[e].done = 3
        /\ issued[e]

\* C10: after two threads have both finished their calls, the filter
\* configuration is the one the process started with, and a warning dispatched
\* under a configured action was decided by that action.
C10_ConcurrentRestore ==
    AllIdle =>
        /\ Ambient = ambient0
        /\ \A t \in threads :
            (Completed(t) /\ cfg[callee[t]].action \in ValidActions /\ cur[t].disp = 1)
                => cur[t].eff = cfg[callee[t]].action

====
